---- MODULE Spec2Model ----
(***************************************************************************)
(* Hackathon evaluation scripts (eval.py, eval1.py, eval2.py,              *)
(* evaltable.py) and the RAG summariser (rag.py).                          *)
(*                                                                         *)
(* Text is modelled as a sequence of tokens.  A model reply is a sequence  *)
(* of reply tokens (braces, commas, prose, JSON members); the regular      *)
(* expression search and the JSON decoder are computed on that sequence.   *)
(***************************************************************************)
EXTENDS Integers, Sequences, FiniteSets, TLC

VARIABLES
    variant,          \* which script runs: "eval", "eval1", "eval2", "evaltable", "rag"
    pc,               \* position of the script's single thread of control
    content,          \* result.content of the model reply
    raw,              \* raw = getattr(result, "content", None) or str(result)
    parsed,           \* eval.py/eval1.py: parsed; eval2.py/evaltable.py: the returned dict
    shown,            \* what the single-submission workflow put on the page
    api_key,          \* the credential input ("" when not given)
    rubric_text,      \* the rubric input (empty when not given)
    uploads,          \* the uploaded archives, in upload order
    i,                \* number of uploads the batch loop has been through
    all_results,      \* the accumulating results list
    leaderboard,      \* sorted(all_results, key=Score, reverse=True)
    rows,             \* the ranked entries put on the page
    export,           \* the download offered at the end of the run
    archive,          \* the upload being extracted: a zip (good or bad) or, in rag.py, a PDF
    tmp,              \* the temporary files and directories of this run that exist
    fi,               \* number of files os.walk has been through
    submission_text,  \* extract_submission_text's accumulating text (its pieces); in
                      \* SpecPrompt the argument of evaluate_submission (runs of characters)
    returned,         \* what extract_submission_text returned
    prompt,           \* the prompt evaluate_submission builds
    total_score,      \* eval.py/eval1.py: total_score of the result being rendered
    metric,           \* eval.py/eval1.py: the "Final Score" metric on the page
    lines,            \* eval.py/eval1.py: the criterion lines written to the page
    report,           \* eval.py/eval1.py: the JSON report offered for download
    calls             \* the calls made so far to extract_submission_text and llm.invoke

parseVars == <<content, raw, parsed, shown>>
batchVars == <<api_key, rubric_text, uploads, i, all_results, leaderboard, rows, export>>
extractVars == <<archive, tmp, fi, submission_text, returned>>
promptVars == <<prompt>>
renderVars == <<total_score, metric, lines, report>>
callVars == <<calls>>
vars == <<variant, pc, parseVars, batchVars, extractVars, promptVars, renderVars, callVars>>
\* what the steps of one flow leave alone
notParseVars == <<batchVars, extractVars, promptVars, renderVars, callVars>>
notBatchVars == <<parseVars, extractVars, promptVars, renderVars, callVars>>
notExtractVars == <<parseVars, batchVars, promptVars, renderVars, callVars>>

\* ------------------------------------------------------------------ bounds
MaxReplyLen == 4

\* --------------------------------------------------------- long texts
\* The rubric and the text handed to evaluate_submission are held as runs of
\* equal characters, n times the character c, so that a text can be longer
\* than the prompt's budget; no two neighbouring runs have the same character.
Run(c, n) == [c |-> c, n |-> n]

\* ------------------------------------------------------------ reply tokens
Tok(k, n) == [k |-> k, n |-> n]
LB == Tok("{", 0)
RB == Tok("}", 0)
COMMA == Tok(",", 0)
PROSE == Tok("x", 0)
\* "detail": followed by an object value
NEST == Tok("detail:", 0)
\* "total_score": n
TS(n) == Tok("total_score", n)
\* "total_score": "high"
TSSTR == Tok("total_score_str", 0)
\* "summary": "..."
SUMMARY == Tok("summary", 0)
\* "status": "Invalid Submission"
INVALID == Tok("status_invalid", 0)
\* "criteria": []
CRITERIA == Tok("criteria", 0)
\* "criteria": [{"name": .., "score": n, "reason": ..}, {"name": .., "score": 25, "reason": ..}]
CRIT(n) == Tok("criteria_scored", n)
\* "criteria": [c] with a criterion c that has no "name", no "score", no
\* "reason", or a "score" that is a string
CRITNONAME == Tok("criteria_no_name", 0)
CRITNOSCORE == Tok("criteria_no_score", 0)
CRITNOREASON == Tok("criteria_no_reason", 0)
CRITSTRSCORE == Tok("criteria_str_score", 0)

\* ------------------------------------------------------------- JSON values
Val(t, n, s) == [t |-> t, n |-> n, s |-> s]
Num(n) == Val("num", n, <<>>)
Str(n) == Val("str", n, <<>>)
\* a string value holding the token text s
Text(s) == Val("text", 0, s)
Obj == Val("obj", 0, <<>>)
List == Val("list", 0, <<>>)
\* a list value with the items s
ListOf(s) == Val("list", 0, s)

\* the empty dict {}
EmptyDict == <<>>
\* d[key] = v (a later duplicate key replaces an earlier one, as json.loads does)
Put(d, key, v) == [x \in (DOMAIN d) \cup {key} |-> IF x = key THEN v ELSE d[x]]
Has(d, key) == key \in DOMAIN d
\* d.get(key, default)
Get(d, key, default) == IF key \in DOMAIN d THEN d[key] ELSE default

\* one entry of "criteria": a dict with the keys the reply gave it
Criterion(score) == [name |-> Str(7), score |-> score, reason |-> Str(8)]
CriterionWithout(key) ==
    [x \in {"name", "score", "reason"} \ {key} |-> Criterion(Num(5))[x]]

CriteriaKinds ==
    {"criteria", "criteria_scored", "criteria_no_name", "criteria_no_score",
     "criteria_no_reason", "criteria_str_score"}
IsMember(t) ==
    t.k \in {"total_score", "total_score_str", "summary", "status_invalid"} \cup CriteriaKinds
MemberKey(t) ==
    CASE t.k = "total_score" -> "total_score"
      [] t.k = "total_score_str" -> "total_score"
      [] t.k = "summary" -> "summary"
      [] t.k = "status_invalid" -> "status"
      [] t.k \in CriteriaKinds -> "criteria"
MemberVal(t) ==
    CASE t.k = "total_score" -> Num(t.n)
      [] t.k = "total_score_str" -> Str(1)
      [] t.k = "summary" -> Str(2)
      [] t.k = "status_invalid" -> Str(3)
      [] t.k = "criteria" -> List
      [] t.k = "criteria_scored" -> ListOf(<<Criterion(Num(t.n)), Criterion(Num(25))>>)
      [] t.k = "criteria_no_name" -> ListOf(<<CriterionWithout("name")>>)
      [] t.k = "criteria_no_score" -> ListOf(<<CriterionWithout("score")>>)
      [] t.k = "criteria_no_reason" -> ListOf(<<CriterionWithout("reason")>>)
      [] t.k = "criteria_str_score" -> ListOf(<<Criterion(Str(1))>>)

\* -------------------------------------------------------------- json.loads
Fail == [ok |-> FALSE, next |-> 0, d |-> EmptyDict]

\* Decode an object starting at s[p] (which is "{"): the members of the object from
\* position p on, `first` telling that no member was read yet.
RECURSIVE DecodeMembers(_, _, _, _)
DecodeMembers(s, p, d, first) ==
    IF p > Len(s) THEN Fail
    ELSE IF s[p] = RB /\ first THEN [ok |-> TRUE, next |-> p + 1, d |-> d]
    ELSE IF IsMember(s[p]) THEN
        IF p + 1 > Len(s) THEN Fail
        ELSE IF s[p + 1] = RB
            THEN [ok |-> TRUE, next |-> p + 2, d |-> Put(d, MemberKey(s[p]), MemberVal(s[p]))]
        ELSE IF s[p + 1] = COMMA
            THEN LET r == DecodeMembers(s, p + 2, Put(d, MemberKey(s[p]), MemberVal(s[p])), FALSE)
                 IN  r
        ELSE Fail
    ELSE IF s[p] = NEST /\ p + 1 <= Len(s) /\ s[p + 1] = LB THEN
        LET inner == DecodeMembers(s, p + 2, EmptyDict, TRUE) IN
        IF ~inner.ok \/ inner.next > Len(s) THEN Fail
        ELSE IF s[inner.next] = RB
            THEN [ok |-> TRUE, next |-> inner.next + 1, d |-> Put(d, "detail", Obj)]
        ELSE IF s[inner.next] = COMMA
            THEN DecodeMembers(s, inner.next + 1, Put(d, "detail", Obj), FALSE)
        ELSE Fail
    ELSE Fail

\* json.loads(s) for a text s that starts with "{": the dict, or JSONDecodeError
\* (ok = FALSE) when s is not exactly one JSON object.
JsonLoads(s) ==
    IF Len(s) = 0 \/ s[1] # LB THEN Fail
    ELSE LET r == DecodeMembers(s, 2, EmptyDict, TRUE) IN
         IF r.ok /\ r.next = Len(s) + 1 THEN r ELSE Fail

\* ------------------------------------------------- re.search(r"\{[\s\S]*\}")
Positions(s, t) == {p \in 1..Len(s) : s[p] = t}
Min(S) == CHOOSE x \in S : \A y \in S : x <= y
Max(S) == CHOOSE x \in S : \A y \in S : x >= y

\* the match exists when some "{" has a "}" after it; it runs from the first "{"
\* to the last "}" of the text
HasMatch(s) ==
    /\ Positions(s, LB) # {}
    /\ Positions(s, RB) # {}
    /\ Min(Positions(s, LB)) < Max(Positions(s, RB))
\* the match of the non-greedy \{[\s\S]*?\}: it ends at the first "}" it can
MatchGroup0Lazy(s) ==
    SubSeq(s, Min(Positions(s, LB)),
           Min({p \in Positions(s, RB) : p > Min(Positions(s, LB))}))
MatchGroup0(s) == SubSeq(s, Min(Positions(s, LB)), Max(Positions(s, RB)))

\* str(result) of a reply message whose content is empty:
\* "content='' additional_kwargs={} response_metadata={}"
StrOfResult == <<PROSE, LB, RB, PROSE, LB, RB>>
\* raw = getattr(result, "content", None) or str(result)
RawOf(c) == IF c = <<>> THEN StrOfResult ELSE c

\* ------------------------------------------------ the two response parsers
None == [some |-> FALSE, d |-> EmptyDict]
Some(d) == [some |-> TRUE, d |-> d]
\* Python truthiness of `parsed`: None and the empty dict are falsy
Truthy(p) == p.some /\ p.d # EmptyDict

\* eval.py / eval1.py: parsed
ParseSingle(r) ==
    IF HasMatch(r)
    THEN LET j == JsonLoads(MatchGroup0(r)) IN IF j.ok THEN Some(j.d) ELSE None
    ELSE None

\* eval2.py / evaltable.py: {"error": "Invalid JSON", "raw": raw}
InvalidJson(r) == Put(Put(EmptyDict, "error", Str(4)), "raw", Text(r))
\* a parser whose fallback keeps only the text the expression matched
ParseBatchKeepsMatch(r) ==
    IF HasMatch(r)
    THEN LET j == JsonLoads(MatchGroup0(r)) IN
         IF j.ok THEN j.d ELSE InvalidJson(MatchGroup0(r))
    ELSE InvalidJson(r)

\* eval2.py / evaltable.py: what evaluate_submission returns for the reply text r
ParseBatch(r) ==
    IF HasMatch(r)
    THEN LET j == JsonLoads(MatchGroup0(r)) IN IF j.ok THEN j.d ELSE InvalidJson(r)
    ELSE InvalidJson(r)

\* --------------------------------------------------------- the parser alone
ParseTokens == {LB, RB, COMMA, PROSE, NEST, TS(7)}
RECURSIVE SeqsUpTo(_, _)
SeqsUpTo(S, n) ==
    IF n = 0 THEN {<<>>}
    ELSE LET shorter == SeqsUpTo(S, n - 1) IN
         shorter \cup {Append(s, t) : s \in {x \in shorter : Len(x) = n - 1}, t \in S}

Variants == {"eval", "eval1", "eval2", "evaltable"}
SingleVariants == {"eval", "eval1"}
BatchVariants == {"eval2", "evaltable"}

\* the variables of the batch flow, in a run that is not a batch run
BatchIdle ==
    /\ api_key = ""
    /\ rubric_text = <<>>
    /\ uploads = <<>>
    /\ i = 0
    /\ all_results = <<>>
    /\ leaderboard = <<>>
    /\ rows = <<>>
    /\ export = "none"

\* the variables of extraction, in a run that does not follow it
ExtractIdle ==
    /\ archive = [ok |-> TRUE, files |-> <<>>]
    /\ tmp = {}
    /\ fi = 0
    /\ submission_text = <<>>
    /\ returned = <<>>

\* the variables of result rendering, in a run that does not follow it
RenderIdle ==
    /\ total_score = Num(0)
    /\ metric = <<>>
    /\ lines = <<>>
    /\ report = <<>>

\* the variables of the response parser, in a run that does not follow it
ParseIdle ==
    /\ content = <<>>
    /\ raw = <<>>
    /\ parsed = None
    /\ shown = "nothing"

ParseInit ==
    /\ variant \in Variants
    /\ pc = "reply"
    /\ content \in SeqsUpTo(ParseTokens, MaxReplyLen)
    /\ raw = <<>>
    /\ parsed = None
    /\ shown = "nothing"
    /\ BatchIdle
    /\ ExtractIdle
    /\ prompt = <<>>
    /\ RenderIdle
    /\ calls = <<>>

\* raw = getattr(result, "content", None) or str(result)
TakeRaw ==
    /\ pc = "reply"
    /\ raw' = RawOf(content)
    /\ pc' = "parse"
    /\ UNCHANGED <<variant, content, parsed, shown, notParseVars>>

\* eval.py 146-157, eval1.py 142-152
ParseReplySingle ==
    /\ pc = "parse"
    /\ variant \in SingleVariants
    /\ parsed' = ParseSingle(raw)
    /\ shown' = IF Truthy(parsed') THEN "result" ELSE "raw"
    /\ pc' = "parsed"
    /\ UNCHANGED <<variant, content, raw, notParseVars>>

\* eval2.py 115-121, evaltable.py 129-135
ParseReplyBatch ==
    /\ pc = "parse"
    /\ variant \in BatchVariants
    /\ parsed' = Some(ParseBatch(raw))
    /\ shown' = "nothing"
    /\ pc' = "parsed"
    /\ UNCHANGED <<variant, content, raw, notParseVars>>

ParseNext == TakeRaw \/ ParseReplySingle \/ ParseReplyBatch

SpecParse == ParseInit /\ [][ParseNext]_vars

\* ----------------------------------------------------- claims on the parser
\* the text has no "{" that a later "}" closes
NoBraceSpan(r) == ~(\E p, q \in 1..Len(r) : p < q /\ r[p] = LB /\ r[q] = RB)
\* the text from the first "{" to the last "}" is not one JSON object
SpanUndecodable(r) == ~NoBraceSpan(r) /\ ~JsonLoads(MatchGroup0(r)).ok
NoBrace(r) == \A p \in 1..Len(r) : r[p] # LB

ExactlyOneObject(r) ==
    \E a, b \in 1..Len(r) :
        /\ a < b
        /\ JsonLoads(SubSeq(r, a, b)).ok
        /\ \A p \in 1..Len(r) : (p < a \/ p > b) => r[p] \notin {LB, RB}
TheObject(r) ==
    LET ab == CHOOSE ab \in (1..Len(r)) \X (1..Len(r)) :
                  /\ ab[1] < ab[2]
                  /\ JsonLoads(SubSeq(r, ab[1], ab[2])).ok
                  /\ \A p \in 1..Len(r) : (p < ab[1] \/ p > ab[2]) => r[p] \notin {LB, RB}
    IN  JsonLoads(SubSeq(r, ab[1], ab[2])).d

\* C4: a reply holding exactly one well-formed JSON object is decoded and
\* treated as a successful parse in every variant, whatever fields it has
\* (an object with no fields included): never the raw-text fallback.
C4_OneObjectIsParsed ==
    (pc = "parsed" /\ ExactlyOneObject(raw)) =>
        /\ parsed = Some(TheObject(raw))
        /\ variant \in SingleVariants => shown = "result"

\* ------------------------------------------- the multi-team batch flow
MaxUploads == 3

\* upload_file.name of the k-th upload: "<k>.zip"
ZipName(k) == [stem |-> k, ext |-> ".zip"]
\* upload_file.name.replace(".zip", "")
StripZip(name) == [stem |-> name.stem, ext |-> ""]

\* the exception messages: a bad archive (extract_submission_text raises) and a
\* failed call to the model (evaluate_submission raises)
BadZipMsg == 1
LlmErrorMsg == 2

\* the replies a submission can get from the model
R90 == <<LB, TS(90), COMMA, SUMMARY, RB>>
R55 == <<PROSE, LB, TS(55), COMMA, CRITERIA, RB>>
RNoTotal == <<LB, SUMMARY, RB>>
RTotalStr == <<LB, TSSTR, RB>>
RProse == <<PROSE>>
RInvalid == <<LB, INVALID, RB>>
BatchReplies == {R90, R55, RNoTotal, RTotalStr, RProse, RInvalid}

\* what happens to one upload: its archive is bad, the model call fails, or
\* the model replies
Outcomes ==
    {[out |-> "bad_zip", content |-> <<>>], [out |-> "llm_error", content |-> <<>>]}
        \cup {[out |-> "reply", content |-> c] : c \in BatchReplies}

RECURSIVE UploadLists(_)
UploadLists(n) ==
    IF n = 0 THEN {<<>>}
    ELSE LET shorter == UploadLists(n - 1) IN
         shorter \cup {Append(u, o) : u \in {x \in shorter : Len(x) = n - 1}, o \in Outcomes}

\* f"Error: {e}"
ErrorSummary(e) == Val("Error: ", e, <<>>)
NoSummary == Str(5)

\* eval2.py 138-143, evaltable.py 155-160
ResultEntry(name, total, result) ==
    [TeamName |-> StripZip(name), Score |-> total,
     Summary |-> Get(result, "summary", NoSummary), Details |-> result]

\* the except branch with the exception's message left out of the summary
ErrorEntryNoMessage(name, e) ==
    [TeamName |-> name, Score |-> Num(0), Summary |-> ErrorSummary(0), Details |-> EmptyDict]

\* eval2.py 145-150, evaltable.py 162-167
ErrorEntry(name, e) ==
    [TeamName |-> name, Score |-> Num(0), Summary |-> ErrorSummary(e), Details |-> EmptyDict]

\* eval2.py 134-137; evaltable.py 154
TotalOf(result) == Get(result, "total_score", Num(0))

\* a status test that never finds an invalid submission
IsInvalidSubmissionNever(result) == FALSE

\* evaltable.py 150: result.get("status") == "Invalid Submission"
IsInvalidSubmission(result) == Has(result, "status") /\ result["status"] = Str(3)

\* Python's < on two keys raises TypeError unless both are numbers or both strings
Comparable(a, b) == a.t = b.t /\ a.t \in {"num", "str"}
KeyLess(a, b) == a.n < b.n

\* list.sort compares until the order is settled, so it raises as soon as two
\* keys of the list cannot be compared
SortRaises(s) ==
    \E p, q \in 1..Len(s) : p # q /\ ~Comparable(s[p].Score, s[q].Score)

Reverse(s) == [k \in 1..Len(s) |-> s[Len(s) + 1 - k]]
Front(s) == SubSeq(s, 1, Len(s) - 1)
\* e goes after every entry whose key is not greater than its own
InsertAsc(t, e) ==
    LET after == {p \in 1..Len(t) : KeyLess(e.Score, t[p].Score)}
        at == IF after = {} THEN Len(t) + 1 ELSE Min(after)
    IN  SubSeq(t, 1, at - 1) \o <<e>> \o SubSeq(t, at, Len(t))
RECURSIVE StableAsc(_)
StableAsc(s) == IF s = <<>> THEN <<>> ELSE InsertAsc(StableAsc(Front(s)), s[Len(s)])

\* an ascending sort turned round, which turns the ties round too
SortedAscThenReversed(s) == Reverse(StableAsc(s))

\* sorted(all_results, key=lambda x: x["Score"], reverse=True): the list is
\* reversed, sorted stably in ascending order and reversed again
SortedByScoreDesc(s) == Reverse(StableAsc(Reverse(s)))

\* enumerate(leaderboard, start=1)
Ranked(board) == [k \in 1..Len(board) |-> [Rank |-> k, entry |-> board[k]]]

BatchInit ==
    /\ variant \in BatchVariants
    /\ pc = "idle"
    /\ api_key \in (IF variant = "evaltable" THEN {"sk"} ELSE {"", "sk"})
    /\ rubric_text \in {<<>>, <<Run(<<"r">>, 10)>>}
    /\ uploads \in UploadLists(MaxUploads)
    /\ i = 0
    /\ all_results = <<>>
    /\ leaderboard = <<>>
    /\ rows = <<>>
    /\ export = "none"
    /\ ParseIdle
    /\ ExtractIdle
    /\ prompt = <<>>
    /\ RenderIdle
    /\ calls = <<>>

\* the guard without the rubric
InputsGivenRubricOptional == api_key # "" /\ uploads # <<>>

\* eval.py 132, eval1.py 128, eval2.py 124, evaltable.py 138
InputsGiven == api_key # "" /\ rubric_text # <<>> /\ uploads # <<>>

\* eval2.py 172-173, evaltable.py 221-222
ShowInfo ==
    /\ pc = "idle"
    /\ ~InputsGiven
    /\ pc' = "info"
    /\ UNCHANGED <<variant, batchVars, notBatchVars>>

\* eval2.py 124-128, evaltable.py 138-142: the button is pressed
StartBatch ==
    /\ pc = "idle"
    /\ InputsGiven
    /\ all_results' = <<>>
    /\ i' = 0
    /\ pc' = "loop"
    /\ UNCHANGED <<variant, notBatchVars, api_key, rubric_text, uploads, leaderboard, rows, export>>

\* a call of extract_submission_text or of llm.invoke, made for the k-th upload
Call(op, k) == [op |-> op, k |-> k]

\* the calls one loop iteration makes: extract_submission_text raises on a bad
\* archive, and evaluate_submission (with its one llm.invoke) is not reached
CallsOfSubmission(u, k) ==
    IF u.out = "bad_zip" THEN <<Call("extract", k)>>
    ELSE <<Call("extract", k), Call("invoke", k)>>

\* the loop body putting its entry at the head of the list
ProcessSubmissionPrepends ==
    /\ pc = "loop"
    /\ i < Len(uploads)
    /\ LET u == uploads[i + 1]
           name == ZipName(i + 1)
           result == ParseBatch(RawOf(u.content))
       IN  all_results' =
               IF u.out = "bad_zip" THEN <<ErrorEntry(name, BadZipMsg)>> \o all_results
               ELSE IF u.out = "llm_error" THEN <<ErrorEntry(name, LlmErrorMsg)>> \o all_results
               ELSE IF variant = "evaltable" /\ IsInvalidSubmission(result) THEN all_results
               ELSE <<ResultEntry(name, TotalOf(result), result)>> \o all_results
    /\ calls' = calls \o CallsOfSubmission(uploads[i + 1], i + 1)
    /\ i' = i + 1
    /\ UNCHANGED <<variant, pc, parseVars, extractVars, promptVars, renderVars,
                   api_key, rubric_text, uploads, leaderboard, rows, export>>

\* one iteration of the loop over uploads: eval2.py 129-152, evaltable.py 144-169
ProcessSubmission ==
    /\ pc = "loop"
    /\ i < Len(uploads)
    /\ LET u == uploads[i + 1]
           name == ZipName(i + 1)
           result == ParseBatch(RawOf(u.content))
       IN  all_results' =
               IF u.out = "bad_zip" THEN Append(all_results, ErrorEntry(name, BadZipMsg))
               ELSE IF u.out = "llm_error" THEN Append(all_results, ErrorEntry(name, LlmErrorMsg))
               ELSE IF variant = "evaltable" /\ IsInvalidSubmission(result) THEN all_results
               ELSE Append(all_results, ResultEntry(name, TotalOf(result), result))
    /\ calls' = calls \o CallsOfSubmission(uploads[i + 1], i + 1)
    /\ i' = i + 1
    /\ UNCHANGED <<variant, pc, parseVars, extractVars, promptVars, renderVars,
                   api_key, rubric_text, uploads, leaderboard, rows, export>>

\* eval2.py 156, evaltable.py 173: sorted() raises TypeError, which nothing catches
BuildLeaderboard ==
    /\ pc = "loop"
    /\ i = Len(uploads)
    /\ IF SortRaises(all_results)
       THEN pc' = "crashed" /\ UNCHANGED leaderboard
       ELSE pc' = "render" /\ leaderboard' = SortedByScoreDesc(all_results)
    /\ UNCHANGED <<variant, notBatchVars, api_key, rubric_text, uploads, i, all_results, rows, export>>

\* eval2.py 157-163, evaltable.py 174-193
RenderLeaderboard ==
    /\ pc = "render"
    /\ rows' = Ranked(leaderboard)
    /\ pc' = "export"
    /\ UNCHANGED <<variant, notBatchVars, api_key, rubric_text, uploads, i, all_results, leaderboard, export>>

\* eval2.py 166-170: json.dumps(leaderboard); evaltable.py 197-219: the summary
\* table and its CSV, only when the leaderboard is not empty
ExportLeaderboard ==
    /\ pc = "export"
    /\ export' = IF variant = "eval2" THEN "json"
                 ELSE IF leaderboard # <<>> THEN "csv" ELSE "none"
    /\ pc' = "done"
    /\ UNCHANGED <<variant, notBatchVars, api_key, rubric_text, uploads, i, all_results, leaderboard, rows>>

BatchNext ==
    \/ ShowInfo
    \/ StartBatch
    \/ ProcessSubmission
    \/ BuildLeaderboard
    \/ RenderLeaderboard
    \/ ExportLeaderboard

SpecBatch == BatchInit /\ [][BatchNext]_vars

\* ------------------------------------------------ claims on the batch flow
Started == pc \notin {"idle", "info"}
Raised(u) == u.out \in {"bad_zip", "llm_error"}
MsgOf(u) == IF u.out = "bad_zip" THEN BadZipMsg ELSE LlmErrorMsg

\* C1: when extract_submission_text or evaluate_submission raises for a
\* submission, all_results gets an entry for it with Score 0 and a Summary that
\* carries the error message, and the loop goes on to the remaining submissions.
C1_ErrorEntryAndLoopGoesOn ==
    Started =>
        /\ \A k \in 1..i : Raised(uploads[k]) =>
              \E p \in 1..Len(all_results) :
                  /\ all_results[p].TeamName = ZipName(k)
                  /\ all_results[p].Score = Num(0)
                  /\ all_results[p].Summary = ErrorSummary(MsgOf(uploads[k]))
        /\ (pc = "loop" /\ i < Len(uploads)) => ENABLED ProcessSubmission
        /\ pc # "loop" => i = Len(uploads)

\* the first submission raised and the two after it were processed
C1_Witness ==
    /\ pc = "loop"
    /\ i = 3
    /\ uploads[1].out = "bad_zip"
    /\ uploads[2].out = "llm_error"
    /\ uploads[3].out = "reply"
    /\ Len(all_results) = 3

ScoreNums(s) == [k \in 1..Len(s) |-> s[k].Score.n]
AllNumeric(s) == \A k \in 1..Len(s) : s[k].Score.t = "num"
PosIn(s, e) == CHOOSE p \in 1..Len(s) : s[p] = e

\* board holds the entries of s, each once, by non-increasing Score, entries
\* of equal Score in the order they have in s
StableDescendingPermutation(s, board) ==
    /\ Len(board) = Len(s)
    /\ \A p \in 1..Len(s) : Cardinality({q \in 1..Len(board) : board[q] = s[p]}) = 1
    /\ \A q, r \in 1..Len(board) : q < r =>
          /\ ~KeyLess(board[q].Score, board[r].Score)
          /\ board[q].Score = board[r].Score => PosIn(s, board[q]) < PosIn(s, board[r])

\* C2: the leaderboard is a permutation of the results by non-increasing
\* Score, equal scores keep upload order, and the ranks are 1..n by position;
\* scores 55, 90, 90 in upload order get ranks 3, 1, 2.  Every list of
\* numeric scores gets its leaderboard.
C2_LeaderboardStableDescending ==
    /\ pc \in {"render", "export", "done"} =>
          StableDescendingPermutation(all_results, leaderboard)
    /\ pc \in {"export", "done"} =>
          /\ Len(rows) = Len(leaderboard)
          /\ \A k \in 1..Len(rows) : rows[k].Rank = k /\ rows[k].entry = leaderboard[k]
    /\ pc = "crashed" => ~AllNumeric(all_results)
    /\ (pc = "done" /\ AllNumeric(all_results) /\ ScoreNums(all_results) = <<55, 90, 90>>) =>
          /\ rows[3].entry = all_results[1]
          /\ rows[1].entry = all_results[2]
          /\ rows[2].entry = all_results[3]

\* the scores 55, 90, 90 were ranked
C2_Witness ==
    /\ pc = "done"
    /\ AllNumeric(all_results)
    /\ ScoreNums(all_results) = <<55, 90, 90>>
    /\ rows[1].Rank = 1
    /\ rows[1].entry.TeamName = StripZip(ZipName(2))

\* C8: no single submission aborts the batch run: whatever each submission's
\* outcome, the flow reaches the leaderboard step and produces the leaderboard
\* and its export.
C8_BatchNeverAborts ==
    /\ pc # "crashed"
    /\ pc = "done" => export # "none"

\* ------------------------------------------------ extract_submission_text
MaxFiles == 2
\* len(text.strip()) < 20
MinPdfText == 20

\* f.lower() on one dot-separated part of a file name
Lower(part) ==
    CASE part = "PY" -> "py"
      [] part = "Main" -> "main"
      [] part = "Makefile" -> "makefile"
      [] OTHER -> part
\* ext = f.lower().split(".")[-1], a file name being its dot-separated parts
Ext(name) == Lower(name[Len(name)])

\* a file of the archive: its name, what reading it does ("ok" or "raise"), the
\* length of the stripped text pdfminer gets from it (-1: pdfminer raises) and
\* what the PyMuPDF fallback does
File(name, rd, plen, fb) == [name |-> name, rd |-> rd, plen |-> plen, fb |-> fb]
TextFiles ==
    {File(n, rd, 0, "ok") : n \in {<<"main", "py">>, <<"notes", "txt">>}, rd \in {"ok", "raise"}}
        \cup {File(<<"Main", "PY">>, "ok", 0, "ok"), File(<<"readme", "md">>, "ok", 0, "ok")}
PdfFiles ==
    {File(<<"report", "pdf">>, "ok", MinPdfText, "ok")}
        \cup {File(<<"report", "pdf">>, "ok", plen, fb) :
                 plen \in {-1, MinPdfText - 1}, fb \in {"ok", "raise"}}
OfficeFiles ==
    {File(n, rd, 0, "ok") : n \in {<<"report", "docx">>, <<"deck", "pptx">>}, rd \in {"ok", "raise"}}
VideoFiles == {File(<<"demo", e>>, "ok", 0, "ok") : e \in {"mp4", "mov", "mkv"}}
OtherFiles == {File(n, "ok", 0, "ok") : n \in {<<"logo", "png">>, <<"Makefile">>}}
Files == TextFiles \cup PdfFiles \cup OfficeFiles \cup VideoFiles \cup OtherFiles

RECURSIVE FileLists(_)
FileLists(n) ==
    IF n = 0 THEN {<<>>}
    ELSE LET shorter == FileLists(n - 1) IN
         shorter \cup {Append(fs, f) : fs \in {x \in shorter : Len(x) = n - 1}, f \in Files}

\* the pieces of the extracted text
Chunk(kind, name, cat) == [kind |-> kind, name |-> name, cat |-> cat]
\* "\n\n" or "\n"
WS == Chunk("ws", <<>>, "")
\* "[FILE: <name> - <cat>]" ("[FILE: <name>]" when cat is "")
Marker(name, cat) == Chunk("marker", name, cat)
\* the text a reader got from the file
Body(name, reader) == Chunk("body", name, reader)
Note(what) == Chunk("note", <<>>, what)

Header(f, cat) == <<WS, Marker(f.name, cat), WS>>

\* the except branch with no marker written
ErrorBlockSilent(f) == <<>>

\* f"\n\n[FILE: {f} - ERROR]\nCould not read this file ({e})"
ErrorBlock(f) == Header(f, "ERROR") \o <<Note("could_not_read")>>

\* the PDF branch keeping pdfminer's text only above the threshold
PdfChunksAboveOnly(f) ==
    Header(f, "DOCUMENT") \o
        (IF f.plen > MinPdfText THEN <<Body(f.name, "pdfminer")>>
         ELSE IF f.fb = "ok" THEN <<Body(f.name, "fitz")>>
         ELSE ErrorBlock(f))

\* the PDF branch (eval.py 52-66, eval2.py 54-63): pdfminer's text unless it
\* raised (plen = -1) or len(text.strip()) < 20, then PyMuPDF's text, and the
\* outer except when PyMuPDF raises too
PdfChunks(f) ==
    Header(f, "DOCUMENT") \o
        (IF f.plen >= MinPdfText THEN <<Body(f.name, "pdfminer")>>
         ELSE IF f.fb = "ok" THEN <<Body(f.name, "fitz")>>
         ELSE ErrorBlock(f))

\* what one file adds to submission_text (eval.py 48-91, eval1.py 51-88,
\* eval2.py 51-78, evaltable.py 54-81)
FileChunks(v, f) ==
    LET ext == Ext(f.name) IN
    CASE ext = "py" ->
            IF f.rd = "raise" THEN ErrorBlock(f)
            ELSE Header(f, "CODE") \o <<Body(f.name, "read")>>
      [] ext = "pdf" -> PdfChunks(f)
      [] ext = "docx" ->
            IF f.rd = "raise" THEN ErrorBlock(f)
            ELSE Header(f, "DOCUMENT") \o <<Body(f.name, "docx2txt")>>
      [] ext = "pptx" ->
            Header(f, "SLIDES") \o
                (IF f.rd = "raise" THEN ErrorBlock(f)
                 ELSE IF v = "eval" THEN <<Body(f.name, "pptx")>>
                 ELSE <<Body(f.name, "pptx"), WS>>)
      [] ext \in {"txt", "md"} ->
            IF f.rd = "raise" THEN ErrorBlock(f)
            ELSE Header(f, "") \o <<Body(f.name, "read")>>
      [] ext \in {"mp4", "mov", "mkv"} -> Header(f, "VIDEO") \o <<Note("video")>>
      [] OTHER ->
            IF v \in {"eval", "eval1"} THEN Header(f, "SKIPPED") \o <<Note("unsupported")>>
            ELSE <<>>

\* str.strip(): the whitespace at both ends goes
RECURSIVE LStrip(_)
LStrip(t) == IF t # <<>> /\ t[1] = WS THEN LStrip(Tail(t)) ELSE t
Strip(t) == Reverse(LStrip(Reverse(LStrip(t))))

\* the uploaded PDFs of rag.py: pdfminer reads them or raises
RagUploads == {File(<<"paper", "pdf">>, rd, MinPdfText, "ok") : rd \in {"ok", "raise"}}

ExtractInit ==
    /\ variant \in Variants \cup {"rag"}
    /\ pc = "upload"
    /\ archive \in
          IF variant = "rag" THEN {[ok |-> TRUE, files |-> <<f>>] : f \in RagUploads}
          ELSE {[ok |-> FALSE, files |-> <<>>]}
                   \cup {[ok |-> TRUE, files |-> fs] : fs \in FileLists(MaxFiles)}
    /\ tmp = {}
    /\ fi = 0
    /\ submission_text = <<>>
    /\ returned = <<>>
    /\ ParseIdle
    /\ BatchIdle
    /\ prompt = <<>>
    /\ RenderIdle
    /\ calls = <<>>

\* with tempfile.TemporaryDirectory() as tmp
EnterTemporaryDirectory ==
    /\ pc = "upload"
    /\ variant \in Variants
    /\ tmp' = tmp \cup {"directory"}
    /\ submission_text' = <<>>
    /\ pc' = "unzip"
    /\ UNCHANGED <<variant, archive, fi, returned, notExtractVars>>

\* zipfile.ZipFile(upload_file).extractall(tmp); a bad archive raises, and the
\* exception leaves the with block, which removes the directory
Unzip ==
    /\ pc = "unzip"
    /\ IF archive.ok
       THEN pc' = "walk" /\ UNCHANGED tmp
       ELSE pc' = "raised" /\ tmp' = tmp \ {"directory"}
    /\ UNCHANGED <<variant, archive, fi, submission_text, returned, notExtractVars>>

\* one file of os.walk: the try/except around the extension dispatch
WalkFile ==
    /\ pc = "walk"
    /\ fi < Len(archive.files)
    /\ submission_text' = submission_text \o FileChunks(variant, archive.files[fi + 1])
    /\ fi' = fi + 1
    /\ UNCHANGED <<variant, pc, archive, tmp, returned, notExtractVars>>

\* the with block ends and the function returns submission_text.strip()
ReturnText ==
    /\ pc = "walk"
    /\ fi = Len(archive.files)
    /\ tmp' = tmp \ {"directory"}
    /\ returned' = Strip(submission_text)
    /\ pc' = "returned"
    /\ UNCHANGED <<variant, archive, fi, submission_text, notExtractVars>>

\* rag.py 28-30: tempfile.NamedTemporaryFile(delete=False, suffix=".pdf")
RagWriteTempFile ==
    /\ pc = "upload"
    /\ variant = "rag"
    /\ tmp' = tmp \cup {"pdf_copy"}
    /\ pc' = "rag_extract"
    /\ UNCHANGED <<variant, archive, fi, submission_text, returned, notExtractVars>>

\* rag.py 33-34: raw_text = extract_text(temp_file_path)
RagExtractText ==
    /\ pc = "rag_extract"
    /\ IF archive.files[1].rd = "ok"
       THEN pc' = "rag_summarise" /\ returned' = <<Body(archive.files[1].name, "pdfminer")>>
       ELSE pc' = "raised" /\ UNCHANGED returned
    /\ UNCHANGED <<variant, archive, tmp, fi, submission_text, notExtractVars>>

\* rag.py 36-77: chunking, the vector store, the chain and the summary
RagSummarise ==
    /\ pc = "rag_summarise"
    /\ pc' = "rag_done"
    /\ UNCHANGED <<variant, extractVars, notExtractVars>>

ExtractNext ==
    \/ EnterTemporaryDirectory
    \/ Unzip
    \/ WalkFile
    \/ ReturnText
    \/ RagWriteTempFile
    \/ RagExtractText
    \/ RagSummarise

SpecExtract == ExtractInit /\ [][ExtractNext]_vars

\* ------------------------------------------------- claims on extraction
SupportedExtensions == {"py", "pdf", "docx", "pptx", "txt", "md", "mp4", "mov", "mkv"}
\* the file has no extension or one that is not supported
HasUnsupportedExtension(f) ==
    Len(f.name) = 1 \/ Lower(f.name[Len(f.name)]) \notin SupportedExtensions
\* no reader gets text from the file: the text read raises (bad encoding), the
\* docx or pptx reader raises, or pdfminer gives no usable text and PyMuPDF raises
Unreadable(f) ==
    /\ ~HasUnsupportedExtension(f)
    /\ IF Ext(f.name) = "pdf" THEN f.plen < MinPdfText /\ f.fb = "raise"
       ELSE Ext(f.name) \notin {"mp4", "mov", "mkv"} /\ f.rd = "raise"

MarkerCount(t, name, cat) == Cardinality({p \in 1..Len(t) : t[p] = Marker(name, cat)})
FilesNamed(fs, name) == {k \in 1..Len(fs) : fs[k].name = name}
NamesOf(fs) == {fs[k].name : k \in 1..Len(fs)}

\* C5: for an archive whose files all have unsupported extensions,
\* extract_submission_text does not raise in any variant and returns a text
\* with exactly one "[FILE: <name> - SKIPPED]" marker per file.
C5_SkippedMarkerPerFile ==
    (/\ variant \in Variants
     /\ archive.ok
     /\ \A k \in 1..Len(archive.files) : HasUnsupportedExtension(archive.files[k])) =>
        /\ pc # "raised"
        /\ pc = "returned" =>
              \A n \in NamesOf(archive.files) :
                  MarkerCount(returned, n, "SKIPPED") = Cardinality(FilesNamed(archive.files, n))

RECURSIVE ChunksOf(_, _)
ChunksOf(v, fs) == IF fs = <<>> THEN <<>> ELSE FileChunks(v, fs[1]) \o ChunksOf(v, Tail(fs))
\* fs without its k-th file
Without(fs, k) == SubSeq(fs, 1, k - 1) \o SubSeq(fs, k + 1, Len(fs))
\* the text t without what the k-th file of fs added to it
CutOut(t, v, fs, k) ==
    LET before == Len(ChunksOf(v, SubSeq(fs, 1, k - 1)))
        own == Len(FileChunks(v, fs[k]))
    IN  SubSeq(t, 1, before) \o SubSeq(t, before + own + 1, Len(t))

\* C6: when a file of the archive cannot be read, extract_submission_text
\* does not raise, the text has exactly one "[FILE: <name> - ERROR]" marker
\* for that file, and the other files are extracted as if it were absent.
C6_ErrorMarkerAndOthersExtracted ==
    (variant \in Variants /\ archive.ok) =>
        /\ pc # "raised"
        /\ pc = "walk" => ENABLED (WalkFile \/ ReturnText)
        /\ pc = "returned" =>
              /\ \A n \in NamesOf(archive.files) :
                    MarkerCount(returned, n, "ERROR") =
                        Cardinality({k \in FilesNamed(archive.files, n) : Unreadable(archive.files[k])})
              /\ \A k \in 1..Len(archive.files) : Unreadable(archive.files[k]) =>
                    Strip(CutOut(submission_text, variant, archive.files, k))
                        = Strip(ChunksOf(variant, Without(archive.files, k)))

\* evaltable.py returned the text of an archive whose first file has a bad
\* encoding and whose second file is read
C6_Witness ==
    /\ pc = "returned"
    /\ variant = "evaltable"
    /\ archive.files = <<File(<<"main", "py">>, "raise", 0, "ok"), File(<<"notes", "txt">>, "ok", 0, "ok")>>
    /\ returned = <<Marker(<<"main", "py">>, "ERROR"), WS, Note("could_not_read"),
                    WS, Marker(<<"notes", "txt">>, ""), WS, Body(<<"notes", "txt">>, "read")>>

\* C9: every temporary workspace created for a submission is released by the
\* time its processing ends, normally or by an exception; this covers
\* extract_submission_text and the temporary PDF copy of rag.py.
C9_TemporaryStorageReleased ==
    pc \in {"returned", "raised", "rag_done"} => tmp = {}

\* ---------------------------------------- evaluate_submission: the prompt
MaxRuns == 2
\* submission_text[:20000]
PromptBudget == 20000

RECURSIVE TextLen(_)
TextLen(t) == IF t = <<>> THEN 0 ELSE t[1].n + TextLen(Tail(t))

\* a slice that keeps the whole text
SliceKeepsAll(t, m) == t

\* t[:m]
RECURSIVE Slice(_, _)
Slice(t, m) ==
    IF t = <<>> \/ m <= 0 THEN <<>>
    ELSE IF t[1].n >= m THEN <<Run(t[1].c, m)>>
    ELSE <<t[1]>> \o Slice(Tail(t), m - t[1].n)

\* the fixed text of the f-string: before the rubric, between the rubric and the
\* submission, and after the submission (the requested JSON format)
Template(v, part) == <<Run(<<v, part>>, 1)>>

\* eval.py 105-127, eval1.py 101-122, eval2.py 90-111, evaltable.py 93-125
BuildPrompt(v, rubric, text) ==
    Template(v, "before rubric") \o rubric \o Template(v, "before submission")
        \o Slice(text, PromptBudget) \o Template(v, "format")

RunLengths == {1, PromptBudget - 1, PromptBudget, PromptBudget + 1}
\* the texts of up to n runs over the characters a and b
RECURSIVE Texts(_)
Texts(n) ==
    IF n = 0 THEN {<<>>}
    ELSE LET shorter == Texts(n - 1) IN
         shorter \cup
             {Append(t, Run(c, k)) : t \in {x \in shorter : Len(x) = n - 1},
                                     c \in {<<"a">>, <<"b">>}, k \in RunLengths}
Canonical(t) == \A p \in 1..(Len(t) - 1) : t[p].c # t[p + 1].c

PromptInit ==
    /\ variant \in Variants
    /\ pc = "evaluate"
    /\ rubric_text \in {<<Run(<<"a">>, 1)>>, <<Run(<<"b">>, PromptBudget + 1)>>}
    /\ submission_text \in {t \in Texts(MaxRuns) : Canonical(t)}
    /\ prompt = <<>>
    /\ ParseIdle
    /\ api_key = "sk"
    /\ uploads = <<>>
    /\ i = 0
    /\ all_results = <<>>
    /\ leaderboard = <<>>
    /\ rows = <<>>
    /\ export = "none"
    /\ archive = [ok |-> TRUE, files |-> <<>>]
    /\ tmp = {}
    /\ fi = 0
    /\ returned = <<>>
    /\ RenderIdle
    /\ calls = <<>>

\* prompt = f"""...{rubric_text}...{submission_text[:20000]}..."""
ComposePrompt ==
    /\ pc = "evaluate"
    /\ prompt' = BuildPrompt(variant, rubric_text, submission_text)
    /\ pc' = "invoke"
    /\ UNCHANGED <<variant, parseVars, batchVars, extractVars, renderVars, callVars>>

PromptNext == ComposePrompt

SpecPrompt == PromptInit /\ [][PromptNext]_vars

\* -------------------------------------------------- claims on the prompt
\* x is the first characters of t
IsPrefix(x, t) ==
    /\ Len(x) <= Len(t)
    /\ \A p \in 1..(Len(x) - 1) : x[p] = t[p]
    /\ x # <<>> => x[Len(x)].c = t[Len(x)].c /\ x[Len(x)].n <= t[Len(x)].n
IsTemplate(r) == Len(r.c) = 2

\* C10: the prompt embeds the rubric verbatim and exactly the first 20000
\* characters of the submission text (all of it when it is shorter); nothing
\* of the submission past character 20000 is in the prompt.
C10_PromptEmbedsRubricAndFirst20000 ==
    pc = "invoke" =>
        \E a \in 2..(Len(prompt) - 1) :
            /\ {p \in 1..Len(prompt) : IsTemplate(prompt[p])} = {1, a, Len(prompt)}
            /\ SubSeq(prompt, 2, a - 1) = rubric_text
            /\ LET embedded == SubSeq(prompt, a + 1, Len(prompt) - 1) IN
               /\ IsPrefix(embedded, submission_text)
               /\ TextLen(embedded) =
                     IF TextLen(submission_text) <= 20000 THEN TextLen(submission_text) ELSE 20000

\* a text of 20001 + 1 characters was cut to its first 20000
C10_Witness ==
    /\ pc = "invoke"
    /\ variant = "eval"
    /\ submission_text = <<Run(<<"a">>, 20001), Run(<<"b">>, 1)>>
    /\ prompt[4] = Run(<<"a">>, 20000)
    /\ Len(prompt) = 5

\* ------------------------------- the single-submission workflow: rendering
MaxSmallScore == 12
\* eval1.py 158: total_score <= 10
ScaleThreshold == 10
\* eval1.py 159: total_score * 10
ScaleFactor == 10

\* parsed.get("total_score", "N/A")
NotAvailable == Str(6)

\* the rescale with < in place of <=
NormalizeTotalBelow(v) ==
    IF v.t = "num" /\ v.n < ScaleThreshold THEN Num(v.n * ScaleFactor) ELSE v

\* eval1.py 157-161: isinstance(total_score, (int, float)) and total_score <= 10
NormalizeTotal(v) ==
    IF v.t = "num" /\ v.n <= ScaleThreshold THEN Num(v.n * ScaleFactor) ELSE v

\* the total_score values of the replies: -1..MaxSmallScore, 70 and 100
ReplyScores == ((0 - 1)..MaxSmallScore) \cup {70, 100}
SingleReplies ==
    {<<LB, TS(n), COMMA, CRITERIA, COMMA, SUMMARY, RB>> : n \in ReplyScores}
        \cup {<<PROSE, LB, TS(n), RB, PROSE>> : n \in ReplyScores}
        \cup {<<LB, TSSTR, COMMA, CRITERIA, RB>>, <<LB, SUMMARY, RB>>, <<LB, RB>>, <<PROSE>>}
        \cup {<<LB, CRIT(n), COMMA, TS(7), COMMA, SUMMARY, RB>> : n \in ReplyScores}
        \cup {<<LB, CRIT(5), RB>>}
        \cup {<<LB, TS(70), COMMA, c, RB>> :
                  c \in {CRITNONAME, CRITNOSCORE, CRITNOREASON, CRITSTRSCORE}}

RenderInit ==
    /\ variant \in SingleVariants
    /\ pc = "reply"
    /\ content \in SingleReplies
    /\ raw = <<>>
    /\ parsed = None
    /\ shown = "nothing"
    /\ total_score = Num(0)
    /\ metric = <<>>
    /\ lines = <<>>
    /\ report = <<>>
    /\ BatchIdle
    /\ ExtractIdle
    /\ prompt = <<>>
    /\ calls = <<>>

\* eval.py 155-157, eval1.py 150-152: the reply was not parsed, nothing is rendered
EndNotParsed ==
    /\ pc = "parsed"
    /\ ~Truthy(parsed)
    /\ pc' = "done"
    /\ UNCHANGED <<variant, parseVars, renderVars, notParseVars>>

\* the normalised total written back into the decoded structure
ReadTotalScoreInPlace ==
    /\ pc = "parsed"
    /\ Truthy(parsed)
    /\ total_score' =
          IF variant = "eval1" THEN NormalizeTotal(Get(parsed.d, "total_score", NotAvailable))
          ELSE Get(parsed.d, "total_score", NotAvailable)
    /\ parsed' = Some(Put(parsed.d, "total_score", total_score'))
    /\ pc' = "metric"
    /\ UNCHANGED <<variant, content, raw, shown, metric, lines, report, batchVars, extractVars,
                   promptVars, callVars>>

\* eval.py 167; eval1.py 156-161
ReadTotalScore ==
    /\ pc = "parsed"
    /\ Truthy(parsed)
    /\ total_score' =
          IF variant = "eval1" THEN NormalizeTotal(Get(parsed.d, "total_score", NotAvailable))
          ELSE Get(parsed.d, "total_score", NotAvailable)
    /\ pc' = "metric"
    /\ UNCHANGED <<variant, parseVars, metric, lines, report, batchVars, extractVars, promptVars, callVars>>

\* eval.py 168: f"{total_score}/10"; eval1.py 164: f"{round(total_score, 1)}/100",
\* where round() raises TypeError on a total_score that is no number (the scores
\* here are integers, which round(x, 1) leaves as they are)
ShowMetric ==
    /\ pc = "metric"
    /\ IF variant = "eval1" /\ total_score.t # "num"
       THEN pc' = "crashed" /\ UNCHANGED metric
       ELSE /\ metric' = <<total_score, IF variant = "eval1" THEN Num(100) ELSE Num(10)>>
            /\ pc' = "criteria"
    /\ UNCHANGED <<variant, parseVars, total_score, lines, report, batchVars, extractVars, promptVars, callVars>>

\* eval1.py 171: score * 3
CriterionFactor == 3

\* the criterion rescale done with the multiplier of the total
NormalizeCriterionLikeTotal(v) ==
    IF v.t = "num" /\ v.n <= ScaleThreshold THEN Num(v.n * ScaleFactor) ELSE v

\* eval1.py 169-173: isinstance(score, (int, float)) and score <= 10, then
\* round(score * 3, 1) (the scores here are integers, which round leaves alone)
NormalizeCriterion(v) ==
    IF v.t = "num" /\ v.n <= ScaleThreshold THEN Num(v.n * CriterionFactor) ELSE v

\* c['name'], c['score'], c['reason'] (eval.py 172; eval1.py 168, 174): KeyError
\* when the criterion has no such key
CriterionRaises(c) == ~({"name", "score", "reason"} \subseteq DOMAIN c)

\* the line st.write puts on the page for the criterion c
CriterionLine(v, c) ==
    [name |-> c.name,
     score |-> IF v = "eval1" THEN NormalizeCriterion(c.score) ELSE c.score,
     reason |-> c.reason]

\* the lines written for the criteria cs, up to the first criterion that raises
RECURSIVE WrittenLines(_, _)
WrittenLines(v, cs) ==
    IF cs = <<>> \/ CriterionRaises(Head(cs)) THEN <<>>
    ELSE <<CriterionLine(v, Head(cs))>> \o WrittenLines(v, Tail(cs))

\* eval.py 171: parsed["criteria"] raises KeyError without the key;
\* eval1.py 167: parsed.get("criteria", [])
CriteriaRaise(v, d) ==
    \/ v = "eval" /\ ~Has(d, "criteria")
    \/ Has(d, "criteria") /\ \E p \in 1..Len(d["criteria"].s) : CriterionRaises(d["criteria"].s[p])

\* eval.py 170-172, eval1.py 166-174: the loop over the criteria
ShowCriteria ==
    /\ pc = "criteria"
    /\ lines' = WrittenLines(variant, Get(parsed.d, "criteria", List).s)
    /\ pc' = IF CriteriaRaise(variant, parsed.d) THEN "crashed" ELSE "summary"
    /\ UNCHANGED <<variant, parseVars, total_score, metric, report, batchVars, extractVars,
                   promptVars, callVars>>

\* json.dumps of the list under "criteria"
DumpCriteria(cs) ==
    IF cs = <<>> THEN CRITERIA
    ELSE IF "name" \notin DOMAIN cs[1] THEN CRITNONAME
    ELSE IF "score" \notin DOMAIN cs[1] THEN CRITNOSCORE
    ELSE IF "reason" \notin DOMAIN cs[1] THEN CRITNOREASON
    ELSE IF cs[1].score.t = "str" THEN CRITSTRSCORE
    ELSE CRIT(cs[1].score.n)

\* json.dumps of one key with its value
DumpMember(key, v) ==
    CASE key = "total_score" -> IF v.t = "num" THEN <<TS(v.n)>> ELSE <<TSSTR>>
      [] key = "summary" -> <<SUMMARY>>
      [] key = "status" -> <<INVALID>>
      [] key = "criteria" -> <<DumpCriteria(v.s)>>
      [] key = "detail" -> <<NEST, LB, RB>>

\* the keys a decoded reply can have, in the order they are written out here
\* (json.dumps keeps the dict's own order, which decoding does not depend on)
ReportKeys == <<"criteria", "total_score", "summary", "status", "detail">>

RECURSIVE DumpMembers(_, _)
DumpMembers(d, keys) ==
    IF keys = <<>> THEN <<>>
    ELSE IF ~Has(d, Head(keys)) THEN DumpMembers(d, Tail(keys))
    ELSE LET rest == DumpMembers(d, Tail(keys)) IN
         DumpMember(Head(keys), d[Head(keys)])
             \o (IF rest = <<>> THEN <<>> ELSE <<COMMA>> \o rest)

\* json.dumps(parsed, indent=2)
JsonDumps(d) == <<LB>> \o DumpMembers(d, ReportKeys) \o <<RB>>

\* eval.py 174-179, eval1.py 176-181: the summary is written and the report
\* is offered for download
ShowSummaryAndReport ==
    /\ pc = "summary"
    /\ report' = JsonDumps(parsed.d)
    /\ pc' = "done"
    /\ UNCHANGED <<variant, parseVars, total_score, metric, lines, batchVars, extractVars,
                   promptVars, callVars>>

RenderNext ==
    \/ TakeRaw
    \/ ParseReplySingle
    \/ EndNotParsed
    \/ ReadTotalScore
    \/ ShowMetric
    \/ ShowCriteria
    \/ ShowSummaryAndReport

SpecRender == RenderInit /\ [][RenderNext]_vars

\* ---------------------------------------------- claims on the normalizer
DecodedTotal == parsed.d["total_score"]

\* C7: the score normalizer of eval1.py maps every numeric total_score at or
\* below 10 to total_score * 10 and leaves every numeric total_score above 10
\* unchanged; 7 becomes 70 and 70 stays 70.
C7_TotalScoreRescaled ==
    (/\ variant = "eval1"
     /\ pc \in {"metric", "criteria"}
     /\ Has(parsed.d, "total_score")
     /\ DecodedTotal.t = "num") =>
        /\ DecodedTotal.n <= 10 => total_score = Num(DecodedTotal.n * 10)
        /\ DecodedTotal.n > 10 => total_score = DecodedTotal
        /\ DecodedTotal.n = 7 => total_score.n = 70
        /\ DecodedTotal.n = 70 => total_score.n = 70
        /\ pc = "criteria" => metric = <<total_score, Num(100)>>

\* a total_score of 10, the largest that is rescaled, was shown as 100
C7_Witness ==
    /\ variant = "eval1"
    /\ pc = "criteria"
    /\ Has(parsed.d, "total_score")
    /\ DecodedTotal = Num(10)
    /\ total_score = Num(100)

\* ------------------------------------------------- evaluate_submission
\* what llm.invoke does: it raises, or it returns a reply
InvokeOutcomes ==
    {[out |-> "llm_error", content |-> <<>>]}
        \cup {[out |-> "reply", content |-> c] : c \in {R90, RNoTotal, RProse}}

\* llm.invoke called a second time after a failure
InvokeModelWithRetry ==
    /\ pc = "invoke"
    /\ \E o \in InvokeOutcomes, again \in InvokeOutcomes :
          /\ calls' = IF o.out = "llm_error"
                      THEN calls \o <<Call("invoke", 1), Call("invoke", 1)>>
                      ELSE Append(calls, Call("invoke", 1))
          /\ LET last == IF o.out = "llm_error" THEN again ELSE o
             IN  IF last.out = "llm_error"
                 THEN pc' = "raised" /\ UNCHANGED content
                 ELSE pc' = "reply" /\ content' = last.content
    /\ UNCHANGED <<variant, raw, parsed, shown, batchVars, extractVars, promptVars, renderVars>>

\* eval.py 129, eval1.py 124, eval2.py 113, evaltable.py 127: the one llm.invoke
\* of evaluate_submission, outside any try: what it raises leaves the function
InvokeModel ==
    /\ pc = "invoke"
    /\ \E o \in InvokeOutcomes :
          /\ calls' = Append(calls, Call("invoke", 1))
          /\ IF o.out = "llm_error"
             THEN pc' = "raised" /\ UNCHANGED content
             ELSE pc' = "reply" /\ content' = o.content
    /\ UNCHANGED <<variant, raw, parsed, shown, batchVars, extractVars, promptVars, renderVars>>

\* evaluate_submission from its first line to what it hands back: the response
\* (eval.py, eval1.py, decoded by the workflow) or the decoded dict
EvaluateNext ==
    \/ ComposePrompt
    \/ InvokeModel
    \/ TakeRaw
    \/ ParseReplySingle
    \/ ParseReplyBatch

SpecEvaluate == PromptInit /\ [][EvaluateNext]_vars

\* ---------------------------------------------- claims on the model call
\* the calls of llm.invoke made so far
InvokeCalls == Len(SelectSeq(calls, LAMBDA c : c.op = "invoke"))

\* C11: each invocation of evaluate_submission calls llm.invoke exactly once;
\* a call that fails is not made again, and the failure leaves
\* evaluate_submission as an exception: nothing is decoded or returned.
C11_OneInvokeNoRetry ==
    /\ pc \in {"evaluate", "invoke"} => InvokeCalls = 0
    /\ pc \in {"raised", "reply", "parse", "parsed"} => InvokeCalls = 1
    /\ pc = "raised" =>
          /\ content = <<>> /\ raw = <<>> /\ parsed = None
          /\ ~ENABLED EvaluateNext

\* the one call failed and evaluate_submission was left by the exception
C11_Witness ==
    /\ pc = "raised"
    /\ InvokeCalls = 1
    /\ prompt # <<>>

\* --------------------------------------- the single-submission workflow
\* the upload of eval.py/eval1.py: none, or one archive with what happens to it
SingleUploads ==
    {<<>>}
        \cup {<<[out |-> o, content |-> <<>>]>> : o \in {"bad_zip", "llm_error"}}
        \cup {<<[out |-> "reply", content |-> c]>> : c \in SingleReplies}

SingleInit ==
    /\ variant \in SingleVariants
    /\ pc = "form"
    /\ api_key \in {"", "sk"}
    /\ rubric_text \in {<<>>, <<Run(<<"r">>, 10)>>}
    /\ uploads \in SingleUploads
    /\ i = 0
    /\ all_results = <<>>
    /\ leaderboard = <<>>
    /\ rows = <<>>
    /\ export = "none"
    /\ ParseIdle
    /\ ExtractIdle
    /\ prompt = <<>>
    /\ RenderIdle
    /\ calls = <<>>

\* eval.py 180-181, eval1.py 183-184
SingleShowInfo ==
    /\ pc = "form"
    /\ ~InputsGiven
    /\ pc' = "info"
    /\ UNCHANGED <<variant, batchVars, notBatchVars>>

\* eval.py 132-139, eval1.py 128-134: with the three inputs given the archive
\* is extracted (before any button); a bad archive ends the script run
ExtractUpload ==
    /\ pc = "form"
    /\ InputsGiven
    /\ calls' = Append(calls, Call("extract", 1))
    /\ pc' = IF uploads[1].out = "bad_zip" THEN "crashed" ELSE "preview"
    /\ UNCHANGED <<variant, batchVars, parseVars, extractVars, promptVars, renderVars>>

\* eval.py 141-143, eval1.py 136-138: the button is pressed
RunEvaluation ==
    /\ pc = "preview"
    /\ calls' = Append(calls, Call("invoke", 1))
    /\ IF uploads[1].out = "llm_error"
       THEN pc' = "crashed" /\ UNCHANGED content
       ELSE pc' = "reply" /\ content' = uploads[1].content
    /\ UNCHANGED <<variant, raw, parsed, shown, batchVars, extractVars, promptVars, renderVars>>

SingleNext ==
    \/ SingleShowInfo
    \/ ExtractUpload
    \/ RunEvaluation
    \/ RenderNext

SpecSingle == SingleInit /\ [][SingleNext]_vars

\* the four evaluation scripts side by side
WorkflowInit == BatchInit \/ SingleInit
WorkflowNext == BatchNext \/ SingleNext
SpecWorkflow == WorkflowInit /\ [][WorkflowNext]_vars

\* ------------------------------------------ claims on the required inputs
\* the credential, the rubric and the upload are all there
AllThreePresent == api_key # "" /\ rubric_text # <<>> /\ Len(uploads) > 0

\* C12: in every evaluation script, when the credential, the rubric or the
\* upload is missing the workflow does not start (no archive is extracted, no
\* model call is made) and the instructional message is what is shown; an
\* extraction or a model call is made only with all three inputs present.
C12_NoWorkWithoutAllInputs ==
    /\ calls # <<>> => AllThreePresent
    /\ ~AllThreePresent =>
          /\ calls = <<>>
          /\ pc \in {"idle", "form", "info"}
          /\ pc # "info" =>
                /\ ENABLED (ShowInfo \/ SingleShowInfo)
                /\ ~ENABLED (StartBatch \/ ExtractUpload)
    /\ pc = "info" => ~AllThreePresent /\ ~ENABLED WorkflowNext

\* eval.py with rubric and upload but no credential: only the message
C12_Witness ==
    /\ variant = "eval"
    /\ api_key = ""
    /\ rubric_text # <<>>
    /\ uploads # <<>>
    /\ pc = "info"
    /\ calls = <<>>

\* ------------------------------------------------ claims on the batch loop
\* s with more entries put at its end, none of s touched
GrownAtEnd(s, t) == Len(s) <= Len(t) /\ SubSeq(t, 1, Len(s)) = s

\* the calls are in upload order, and those for one upload are its extraction
\* followed by its model call
InUploadOrder(cs) ==
    \A a, b \in 1..Len(cs) :
        a < b => \/ cs[a].k < cs[b].k
                 \/ cs[a].k = cs[b].k /\ cs[a].op = "extract" /\ cs[b].op = "invoke"

\* C13: the batch loop processes the submissions strictly one after another in
\* upload order (the extraction and the model call for submission i+1 are made
\* only after submission i is finished with), and all_results only ever grows
\* at its end: no entry in it is removed, reordered or modified.
C13_SequentialAppendOnly ==
    [][/\ GrownAtEnd(all_results, all_results')
       /\ Len(all_results') <= Len(all_results) + 1
       /\ GrownAtEnd(calls, calls')
       /\ InUploadOrder(calls')
       /\ \A p \in 1..Len(calls') : calls'[p].k <= i'
       /\ i' \in {i, i + 1}
       /\ i' = i => all_results' = all_results /\ calls' = calls
       /\ i' = i + 1 =>
             /\ calls' # calls
             /\ \A p \in (Len(calls) + 1)..Len(calls') : calls'[p].k = i'
             /\ Len(all_results') > Len(all_results) =>
                   all_results'[Len(all_results')].TeamName.stem = i'
      ]_vars

\* three uploads were processed and each left its entry, in upload order
C13_Witness ==
    /\ pc = "loop"
    /\ i = 3
    /\ Len(all_results) = 3
    /\ \A p \in 1..3 : all_results[p].TeamName.stem = p
    /\ Len(calls) >= 5

\* ------------------------------------------- claims on the decoded span
\* r from its first "{" to its last "}"
FirstOpen(r) == CHOOSE p \in 1..Len(r) : r[p] = LB /\ \A q \in 1..(p - 1) : r[q] # LB
LastClose(r) == CHOOSE p \in 1..Len(r) : r[p] = RB /\ \A q \in (p + 1)..Len(r) : r[q] # RB
OuterSpan(r) == [p \in 1..(LastClose(r) - FirstOpen(r) + 1) |-> r[FirstOpen(r) + p - 1]]

\* r holds two complete JSON objects, one after the other
TwoObjects(r) ==
    \E a, b, c, d \in 1..Len(r) :
        /\ a < b /\ b < c /\ c < d
        /\ a = FirstOpen(r) /\ d = LastClose(r)
        /\ JsonLoads(SubSeq(r, a, b)).ok
        /\ JsonLoads(SubSeq(r, c, d)).ok
FirstObject(r) ==
    LET b == CHOOSE q \in 1..Len(r) : JsonLoads(SubSeq(r, FirstOpen(r), q)).ok
    IN  JsonLoads(SubSeq(r, FirstOpen(r), b)).d

\* C14: for every reply text with a "{" followed later by a "}", what the
\* parser tries to decode is the text from the first "{" to the last "}"
\* (greedy, blind to nesting); a reply holding two separate JSON objects is
\* therefore decoded as one span and gives the not-parsed outcome, not the
\* first object.
C14_GreedySpanDecoded ==
    (pc = "parsed" /\ ~NoBraceSpan(raw)) =>
        /\ LET j == JsonLoads(OuterSpan(raw)) IN
           IF variant \in SingleVariants
           THEN parsed = (IF j.ok THEN Some(j.d) ELSE None)
           ELSE parsed = Some(IF j.ok THEN j.d ELSE InvalidJson(raw))
        /\ TwoObjects(raw) =>
              /\ variant \in SingleVariants => parsed = None /\ shown = "raw"
              /\ variant \in BatchVariants => parsed = Some(InvalidJson(raw))
              /\ parsed # Some(FirstObject(raw))

\* the reply "{}{}" came back from eval2.py's parser as the Invalid JSON dict
C14_Witness ==
    /\ pc = "parsed"
    /\ variant = "eval2"
    /\ raw = <<LB, RB, LB, RB>>
    /\ TwoObjects(raw)
    /\ parsed = Some(InvalidJson(raw))

\* ------------------------------------------- claims on the criterion scores
\* the criteria the reply decoded to
DecodedCriteria == parsed.d["criteria"].s
CriteriaShown ==
    /\ variant = "eval1"
    /\ pc \in {"summary", "done"}
    /\ Has(parsed.d, "criteria")

\* C15 as stated: eval1.py rescales a numeric criterion score at or below 10 by
\* the same rule and the same fixed multiplier as total_score (times 10) and
\* leaves a criterion score above 10 unchanged.
C15_CriterionScaledLikeTotal ==
    CriteriaShown =>
        /\ Len(lines) = Len(DecodedCriteria)
        /\ \A p \in 1..Len(lines) :
              LET sc == DecodedCriteria[p].score IN
              sc.t = "num" =>
                  /\ sc.n <= 10 => lines[p].score = Num(sc.n * 10)
                  /\ sc.n > 10 => lines[p].score = sc

\* C15, amended: eval1.py detects a numeric criterion score at or below 10 by
\* the same rule as for total_score but multiplies it by 3, not by 10; a
\* criterion score above 10 is left unchanged.
C15_CriterionScaledByThree ==
    CriteriaShown =>
        /\ Len(lines) = Len(DecodedCriteria)
        /\ \A p \in 1..Len(lines) :
              LET sc == DecodedCriteria[p].score IN
              sc.t = "num" =>
                  /\ sc.n <= 10 => lines[p].score = Num(sc.n * 3)
                  /\ sc.n > 10 => lines[p].score = sc

\* criterion scores 10 and 25 were shown as 30 and 25
C15_Witness ==
    /\ CriteriaShown
    /\ Len(lines) = 2
    /\ DecodedCriteria[1].score = Num(10) /\ lines[1].score = Num(30)
    /\ DecodedCriteria[2].score = Num(25) /\ lines[2].score = Num(25)

\* ------------------------------------------------ claims on the PDF branch
\* the PDF files os.walk has been through
WalkedPdfs == {k \in 1..fi : Ext(archive.files[k].name) = "pdf"}
ChunkCount(t, c) == Cardinality({p \in 1..Len(t) : t[p] = c})

\* C16: for every PDF file, extract_submission_text uses the primary
\* extractor's text when its stripped length is at least 20, and otherwise
\* (shorter, or the primary extractor raised) the fallback extractor's text;
\* when the fallback raises too the file gets an ERROR marker and extraction
\* goes on with the next file.
C16_PdfPrimaryThenFallback ==
    (variant \in Variants /\ archive.ok) =>
        /\ pc # "raised"
        /\ pc = "returned" => fi = Len(archive.files)
        /\ \A n \in {archive.files[k].name : k \in WalkedPdfs} :
              LET mine == {k \in WalkedPdfs : archive.files[k].name = n} IN
              /\ ChunkCount(submission_text, Body(n, "pdfminer"))
                    = Cardinality({k \in mine : archive.files[k].plen >= 20})
              /\ ChunkCount(submission_text, Body(n, "fitz"))
                    = Cardinality({k \in mine : /\ archive.files[k].plen < 20
                                                /\ archive.files[k].fb = "ok"})
              /\ ChunkCount(submission_text, Marker(n, "ERROR"))
                    = Cardinality({k \in mine : /\ archive.files[k].plen < 20
                                                /\ archive.files[k].fb = "raise"})

\* a PDF with 19 characters of text whose fallback raised got its ERROR marker,
\* and the PDF after it, with 20 characters, was read by the primary extractor
C16_Witness ==
    /\ variant \in Variants
    /\ pc = "returned"
    /\ Len(archive.files) = 2
    /\ Ext(archive.files[1].name) = "pdf"
    /\ archive.files[1].plen = 19 /\ archive.files[1].fb = "raise"
    /\ Ext(archive.files[2].name) = "pdf"
    /\ archive.files[2].plen = 20
    /\ ChunkCount(returned, Marker(archive.files[1].name, "ERROR")) = 1
    /\ ChunkCount(returned, Body(archive.files[2].name, "pdfminer")) = 1

\* ------------------------------------------ claims on the finished loop
\* the loop over uploads has ended
LoopFinished ==
    \/ pc = "loop" /\ i = Len(uploads)
    \/ pc \in {"render", "export", "done", "crashed"}

\* the model's reply for the k-th upload is marked "Invalid Submission"
MarkedInvalid(k) ==
    /\ uploads[k].out = "reply"
    /\ LET r == ParseBatch(RawOf(uploads[k].content))
       IN  Has(r, "status") /\ r["status"] = Str(3)

\* the uploads, by position, that leave an entry
EntryOwners ==
    SelectSeq([k \in 1..Len(uploads) |-> k],
              LAMBDA k : ~(variant = "evaltable" /\ MarkedInvalid(k)))

\* board holds exactly the entries of s
SameEntries(s, board) ==
    /\ Len(board) = Len(s)
    /\ \A p \in 1..Len(s) :
          Cardinality({q \in 1..Len(board) : board[q] = s[p]})
              = Cardinality({q \in 1..Len(s) : s[q] = s[p]})

\* C17 as stated: when the batch loop of eval2.py or evaltable.py has finished,
\* all_results holds exactly one entry per uploaded archive, in upload order,
\* whatever the outcome of each submission was.
C17_OneEntryPerUpload ==
    LoopFinished =>
        /\ Len(all_results) = Len(uploads)
        /\ \A p \in 1..Len(all_results) : all_results[p].TeamName.stem = p

\* C17, amended: when the batch loop has finished, all_results holds, in upload
\* order, exactly one entry per uploaded archive except that evaltable.py
\* leaves no entry for a submission whose reply is marked "Invalid
\* Submission"; the leaderboard, once built, holds the same entries.
C17_OneEntryPerUploadNotSkipped ==
    LoopFinished =>
        /\ Len(all_results) = Len(EntryOwners)
        /\ \A p \in 1..Len(all_results) : all_results[p].TeamName.stem = EntryOwners[p]
        /\ variant = "eval2" => Len(all_results) = Len(uploads)
        /\ pc \in {"render", "export", "done"} => SameEntries(all_results, leaderboard)

\* evaltable.py went through three uploads, the second one marked invalid, and
\* the leaderboard has the first and the third
C17_Witness ==
    /\ variant = "evaltable"
    /\ pc = "done"
    /\ Len(uploads) = 3
    /\ MarkedInvalid(2)
    /\ Len(all_results) = 2
    /\ all_results[1].TeamName.stem = 1
    /\ all_results[2].TeamName.stem = 3
    /\ Len(leaderboard) = 2

\* ------------------------------------------------ claims on the rendering
\* C18: in the single-submission workflow (eval.py, eval1.py), for every reply
\* that decodes to a non-empty JSON object the rendering completes without
\* raising and the JSON report is offered for download, also when the object
\* has no "total_score" or no "criteria", when a criterion has no "name",
\* "score" or "reason", or when total_score is not a number.
C18_RenderingCompletes ==
    (variant \in SingleVariants /\ Truthy(parsed)) =>
        /\ pc # "crashed"
        /\ pc = "done" => report # <<>>

\* the structure the reply decodes to
Decoded == JsonLoads(OuterSpan(raw)).d
Rendering == pc \in {"metric", "criteria", "summary", "done", "crashed"}

\* C19: the score normalisation of eval1.py changes only what is displayed and
\* leaves the decoded structure as it is, so the JSON report offered for
\* download is exactly the structure decoded from the reply: a total_score of
\* 7 is shown as 70/100 while the report still holds 7.
C19_ReportIsDecodedStructure ==
    (variant = "eval1" /\ Rendering /\ Truthy(parsed)) =>
        /\ parsed = Some(Decoded)
        /\ pc = "done" =>
              /\ JsonLoads(report).ok
              /\ JsonLoads(report).d = Decoded
              /\ (Has(Decoded, "total_score") /\ Decoded["total_score"] = Num(7)) =>
                    /\ metric = <<Num(70), Num(100)>>
                    /\ \E p \in 1..Len(report) : report[p] = TS(7)
                    /\ \A p \in 1..Len(report) : report[p] # TS(70)
              /\ Has(Decoded, "criteria") =>
                    \A p \in 1..Len(lines) :
                        /\ JsonLoads(report).d["criteria"].s[p].score = Decoded["criteria"].s[p].score
                        /\ Decoded["criteria"].s[p].score = Num(5) => lines[p].score = Num(15)

\* total_score 7 with a criterion score of 5: shown as 70/100 and 15, and the
\* report holds 7 and 5
C19_Witness ==
    /\ variant = "eval1"
    /\ pc = "done"
    /\ Truthy(parsed)
    /\ Has(Decoded, "total_score") /\ Has(Decoded, "criteria")
    /\ Decoded["total_score"] = Num(7)
    /\ Decoded["criteria"].s[1].score = Num(5)
    /\ metric = <<Num(70), Num(100)>>
    /\ lines[1].score = Num(15)
    /\ JsonLoads(report).d = Decoded

====
